---- MODULE Spec2Model ----
(***************************************************************************)
(* Model of src/os/unix/crashlog_unix.cpp: the Unix crash handler.         *)
(*                                                                         *)
(* The state is the process' signal dispositions, each thread's signal     *)
(* mask, pending signals and position in the handlers, the process-wide    *)
(* CrashLogUnix::current pointer and the CrashLogUnix objects (their       *)
(* try_execute_active flag, their jmp_buf and their report buffer).        *)
(* A position is named after the source line it is about to execute.       *)
(* Handlers never return (they _exit or longjmp), so a thread's position   *)
(* is the position of its innermost frame.                                 *)
(***************************************************************************)
EXTENDS Integers, Sequences, FiniteSets, TLC

(* ------------------------------ bounds ------------------------------- *)

\* Number of diagnostic sections MakeCrashLog gathers under TryExecute.
NumSteps == 2

\* Number of further faults (after the first one) raised in one run.
MaxFaults == 2

\* Number of guarded steps that fault in a run of two threads.
MaxFaultsMT == 1

\* Largest call depth the stack walk is tried on.
MaxDepth == 66

(* ------------------------- program constants ------------------------- *)

\* void *trace[64]
TraceCap == 64

\* Faulty variant of signals_to_handle: SIGQUIT is missing from the list.
signals_without_quit ==
    <<"SIGSEGV", "SIGABRT", "SIGFPE", "SIGBUS", "SIGILL">>

\* static constexpr int _signals_to_handle[]
signals_to_handle ==
    <<"SIGSEGV", "SIGABRT", "SIGFPE", "SIGBUS", "SIGILL", "SIGQUIT">>

Signals == {"SIGSEGV", "SIGABRT", "SIGFPE", "SIGBUS", "SIGILL", "SIGQUIT"}

\* Signals the running code raises itself (a trap, abort()), on the thread
\* that executes the faulting instruction.
SyncSignals == {"SIGSEGV", "SIGABRT", "SIGFPE", "SIGBUS", "SIGILL"}

\* Signals sent from outside (the terminal's quit key, kill).
AsyncSignals == {"SIGQUIT"}

Threads == {"main", "other"}

Sections == 1 .. NumSteps

nullptr == "nullptr"

VARIABLES
    sigact,                 \* signal -> [sa_handler, sa_mask]
    pc,                     \* thread -> position
    sigmask,                \* thread -> set of blocked signals
    pending,                \* thread -> set of pending signals
    ss_i,                   \* thread -> index of SetSignals' second loop
    signum,                 \* thread -> signum argument of HandleCrash
    current,                \* CrashLogUnix::current (nullptr or the owner)
    log,                    \* thread -> its CrashLogUnix object exists
    try_execute_active,     \* object -> try_execute_active
    internal_fault_jmp_buf, \* object -> the TryExecute call that filled it
    section,                \* thread -> section MakeCrashLog is at
    res,                    \* thread -> result of func() / of TryExecute
    report,                 \* object -> the report buffer
    crashlog_written,       \* object -> the report file was written
    proc,                   \* "running", "exited", "killed", "undefined"
    exit_code,              \* argument of _exit, 0 while running
    cleanups,               \* number of AfterCrashLogCleanup() calls
    emergency,              \* answer of _gamelog.TestEmergency()
    missing_newgrfs,        \* answer of SaveloadCrashWithMissingNewGRFs()
    first_fault,            \* the signal of the process' first fault
    faults,                 \* further faults raised so far
    stray,                  \* a further fault was raised outside func()
    fault_from,             \* thread -> where and when its handler was entered
    abandoned,              \* thread -> sections left by a checkpoint resume
    returned,               \* thread -> section -> what TryExecute returned
    answered,               \* thread -> the pre-check that answered yes
    composed,               \* thread -> progress of MakeCrashLog
    aborts,                 \* HandleInternalCrash calls that found no guard
    resumes,                \* longjmp calls made: by whom, on which jmp_buf
    hc_entries,             \* thread -> times HandleCrash was entered
    notices,                \* thread -> section -> failure notices printed
    glibc,                  \* the build has execinfo
    depth,                  \* frames on the call stack at the stack walk
    trace_size,             \* LogStacktrace: backtrace()'s result
    ls_i,                   \* LogStacktrace: loop index
    ls_out,                 \* LogStacktrace: text appended
    ls_pc                   \* LogStacktrace: position

sigvars == <<sigact, sigmask, pending, ss_i>>
objvars == <<current, log, try_execute_active, internal_fault_jmp_buf,
             report, crashlog_written>>
ctlvars == <<pc, signum, section, res, proc, exit_code, cleanups>>
envvars == <<emergency, missing_newgrfs, first_fault, faults, stray>>
histvars == <<fault_from, abandoned, returned, answered, composed, aborts,
              resumes, hc_entries, notices>>
lsvars == <<glibc, depth, trace_size, ls_i, ls_out, ls_pc>>

vars == <<sigvars, objvars, ctlvars, envvars, histvars, lsvars>>

NoCall == [thread |-> "none", section |-> 0]
NoFault ==
    [pc |-> "none", section |-> 0, handle |-> FALSE, active |-> FALSE,
     during |-> FALSE]

(* ------------------------------ helpers ------------------------------ *)

\* sigemptyset(&sigs); for (int signum : _signals_to_handle) sigaddset(...)
SigSet(list) == {list[i] : i \in 1 .. Len(list)}

\* Faulty variant of SigAction: sa_mask is left empty.
SigAction_NoMask(handler) == [sa_handler |-> handler, sa_mask |-> {}]

\* The struct sigaction SetSignals builds for `handler`.
SigAction(handler) ==
    [sa_handler |-> handler, sa_mask |-> SigSet(signals_to_handle)]

DefaultAction == [sa_handler |-> "SIG_DFL", sa_mask |-> {}]

\* First position of a signal handler.
Entry(handler) ==
    IF handler = "HandleCrash" THEN "HC_217" ELSE "HIC_202"

\* Positions inside a TryExecute call once its setjmp has returned 0.
AfterSetjmp == {"TE_139", "TE_140", "TE_125", "TE_135"}

\* Positions whose code may raise a fault itself: the running program, the
\* collaborators' code the handler calls and the guarded func().
FalliblePcs ==
    {"Normal", "HC_227", "HC_233", "HC_240", "TE_139", "MCL_ret",
     "MCL_write", "HC_244"}

\* Positions before the handlers are installed: no fault is raised there.
BeforeInstall == {"NoThread", "Start", "IC_SetSignals"}

\* A thread takes its next step only when no unblocked signal is pending:
\* the kernel delivers that one first.
Deliverable(t) == pending[t] \ sigmask[t]

Ready(t) == proc = "running" /\ Deliverable(t) = {}

\* _exit(code)
Exit(code) == proc' = "exited" /\ exit_code' = code

(* ------------------------------- Init -------------------------------- *)

InitProcess ==
    /\ sigact = [s \in Signals |-> DefaultAction]
    /\ sigmask = [t \in Threads |-> {}]
    /\ pending = [t \in Threads |-> {}]
    /\ ss_i = [t \in Threads |-> 0]
    /\ signum = [t \in Threads |-> "none"]
    /\ current = nullptr
    /\ log = [t \in Threads |-> FALSE]
    /\ try_execute_active = [t \in Threads |-> FALSE]
    /\ internal_fault_jmp_buf = [t \in Threads |-> NoCall]
    /\ section = [t \in Threads |-> 0]
    /\ res = [t \in Threads |-> FALSE]
    /\ report = [t \in Threads |-> <<>>]
    /\ crashlog_written = [t \in Threads |-> FALSE]
    /\ proc = "running"
    /\ exit_code = 0
    /\ cleanups = 0
    /\ first_fault = "none"
    /\ faults = 0
    /\ stray = FALSE
    /\ fault_from = [t \in Threads |-> NoFault]
    /\ abandoned = [t \in Threads |-> {}]
    /\ returned = [t \in Threads |-> [i \in Sections |-> "none"]]
    /\ answered = [t \in Threads |-> "none"]
    /\ composed = [t \in Threads |-> "no"]
    /\ aborts = 0
    /\ resumes = <<>>
    /\ hc_entries = [t \in Threads |-> 0]
    /\ notices = [t \in Threads |-> [i \in Sections |-> 0]]

\* A single-threaded process about to call CrashLog::InitialiseCrashLog().
Init ==
    /\ InitProcess
    /\ pc = [t \in Threads |-> IF t = "main" THEN "Start" ELSE "NoThread"]
    /\ emergency \in BOOLEAN
    /\ missing_newgrfs \in BOOLEAN
    /\ glibc = TRUE
    /\ depth = 0
    /\ trace_size = 0
    /\ ls_i = 0
    /\ ls_out = <<>>
    /\ ls_pc = "idle"

(* ------------------------- signal registration ----------------------- *)

\* CrashLog::InitialiseCrashLog: SetSignals(HandleCrash), up to its second
\* loop.
InitialiseCrashLog(t) ==
    /\ pc[t] = "Start"
    /\ Ready(t)
    /\ pc' = [pc EXCEPT ![t] = "IC_SetSignals"]
    /\ ss_i' = [ss_i EXCEPT ![t] = 1]
    /\ UNCHANGED <<sigact, sigmask, pending, objvars, signum, section, res,
                   proc, exit_code, cleanups, envvars, histvars, lsvars>>

\* Faulty variant of SetSignalsHandler: HandleCrash registers itself again.
SetSignalsHandler_Same(p) == "HandleCrash"

\* The handler SetSignals is registering at this position.
SetSignalsHandler(p) ==
    IF p = "IC_SetSignals" THEN "HandleCrash" ELSE "HandleInternalCrash"

\* Where SetSignals returns to.
SetSignalsReturn(p) ==
    IF p = "IC_SetSignals" THEN "Normal" ELSE "HC_225"

\* SetSignals: one sigaction(signum, &sa, nullptr) of the second loop.
SetSignals(t) ==
    /\ pc[t] \in {"IC_SetSignals", "HC_SetSignals"}
    /\ Ready(t)
    /\ sigact' = [sigact EXCEPT ![signals_to_handle[ss_i[t]]] =
                      SigAction(SetSignalsHandler(pc[t]))]
    /\ IF ss_i[t] = Len(signals_to_handle)
       THEN /\ pc' = [pc EXCEPT ![t] = SetSignalsReturn(pc[t])]
            /\ ss_i' = [ss_i EXCEPT ![t] = 0]
       ELSE /\ pc' = pc
            /\ ss_i' = [ss_i EXCEPT ![t] = ss_i[t] + 1]
    /\ UNCHANGED <<sigmask, pending, objvars, signum, section, res, proc,
                   exit_code, cleanups, envvars, histvars, lsvars>>

(* --------------------------- fault delivery -------------------------- *)

\* The kernel runs the registered handler of signal s on thread t: the
\* handler's sa_mask and s itself are added to the thread's mask. A signal
\* with the default action ends the process.
Dispatch(t, s) ==
    IF sigact[s].sa_handler = "SIG_DFL"
    THEN /\ proc' = "killed"
         /\ UNCHANGED <<pc, sigmask, signum, fault_from>>
    ELSE /\ proc' = proc
         /\ pc' = [pc EXCEPT ![t] = Entry(sigact[s].sa_handler)]
         /\ sigmask' = [sigmask EXCEPT
                            ![t] = sigmask[t] \cup sigact[s].sa_mask \cup {s}]
         /\ signum' = IF sigact[s].sa_handler = "HandleCrash"
                      THEN [signum EXCEPT ![t] = s]
                      ELSE signum
         /\ fault_from' =
                [fault_from EXCEPT
                     ![t] = [pc |-> pc[t],
                             section |-> section[t],
                             handle |-> current # nullptr,
                             active |-> /\ current # nullptr
                                        /\ try_execute_active[current],
                             during |-> \E u \in Threads \ {t} :
                                            pc[u] \notin BeforeInstall
                                                           \cup {"Normal"}]]

\* Code running on thread t faults. The first fault of a thread hits the
\* running program; a further one hits the code a handler runs. A fault
\* whose signal is blocked cannot be handled: the kernel ends the process.
RaiseSync(t, s) ==
    /\ pc[t] \in FalliblePcs
    /\ Ready(t)
    /\ pc[t] # "Normal" => faults < MaxFaults
    /\ faults' = IF pc[t] = "Normal" THEN faults ELSE faults + 1
    /\ first_fault' = IF first_fault = "none" THEN s ELSE first_fault
    /\ stray' = (stray \/ pc[t] \notin {"Normal", "TE_139"})
    /\ IF s \in sigmask[t]
       THEN /\ proc' = "killed"
            /\ UNCHANGED <<pc, sigmask, signum, fault_from>>
       ELSE Dispatch(t, s)
    /\ UNCHANGED <<sigact, pending, ss_i, objvars, section, res, exit_code,
                   cleanups, emergency, missing_newgrfs, abandoned, returned,
                   answered, composed, aborts, resumes, hc_entries, notices,
                   lsvars>>

\* A signal is sent to thread t from outside. It stays pending while
\* blocked.
RaiseAsync(t, s) ==
    /\ proc = "running"
    /\ pc[t] \notin BeforeInstall
    /\ s \notin pending[t]
    /\ pc[t] # "Normal" => faults < MaxFaults
    /\ faults' = IF pc[t] = "Normal" THEN faults ELSE faults + 1
    /\ first_fault' = IF first_fault = "none" THEN s ELSE first_fault
    /\ stray' = (stray \/ pc[t] \notin {"Normal", "TE_139"}
                       \/ s \in sigmask[t])
    /\ pending' = [pending EXCEPT ![t] = pending[t] \cup {s}]
    /\ UNCHANGED <<sigact, sigmask, ss_i, objvars, ctlvars, emergency,
                   missing_newgrfs, histvars, lsvars>>

\* The kernel delivers a pending, unblocked signal to thread t.
Deliver(t, s) ==
    /\ proc = "running"
    /\ s \in Deliverable(t)
    /\ pending' = [pending EXCEPT ![t] = pending[t] \ {s}]
    /\ Dispatch(t, s)
    /\ UNCHANGED <<sigact, ss_i, objvars, section, res, exit_code, cleanups,
                   envvars, abandoned, returned, answered, composed, aborts,
                   resumes, hc_entries, notices, lsvars>>

(* ---------------------------- HandleCrash ---------------------------- *)

\* HandleCrash: `if (CrashLogUnix::current != nullptr)`: a second entry
\* runs the cleanup and _exit(2); the first goes on to SetSignals.
HandleCrash_Entry(t) ==
    /\ pc[t] = "HC_217"
    /\ Ready(t)
    /\ hc_entries' = [hc_entries EXCEPT ![t] = hc_entries[t] + 1]
    /\ IF current # nullptr
       THEN /\ cleanups' = cleanups + 1
            /\ Exit(2)
            /\ pc' = [pc EXCEPT ![t] = "HC_219"]
            /\ ss_i' = ss_i
       ELSE /\ pc' = [pc EXCEPT ![t] = "HC_SetSignals"]
            /\ ss_i' = [ss_i EXCEPT ![t] = 1]
            /\ UNCHANGED <<cleanups, proc, exit_code>>
    /\ UNCHANGED <<sigact, sigmask, pending, objvars, signum, section, res,
                   envvars, fault_from, abandoned, returned, answered,
                   composed, aborts, resumes, notices, lsvars>>

\* Faulty variant of HandleCrash_Unblock: the sigprocmask call is missing.
HandleCrash_Unblock_Skipped(t) ==
    /\ pc[t] = "HC_225"
    /\ Ready(t)
    /\ pc' = [pc EXCEPT ![t] = "HC_227"]
    /\ UNCHANGED <<sigvars, objvars, signum, section, res, proc, exit_code,
                   cleanups, envvars, histvars, lsvars>>

\* sigprocmask(SIG_UNBLOCK, &sigs, ...)
Unblock(mask) == mask \ SigSet(signals_to_handle)

\* HandleCrash: sigprocmask(SIG_UNBLOCK, &sigs, &old_sigset)
HandleCrash_Unblock(t) ==
    /\ pc[t] = "HC_225"
    /\ Ready(t)
    /\ sigmask' = [sigmask EXCEPT ![t] = Unblock(sigmask[t])]
    /\ pc' = [pc EXCEPT ![t] = "HC_227"]
    /\ UNCHANGED <<sigact, pending, ss_i, objvars, signum, section, res,
                   proc, exit_code, cleanups, envvars, histvars, lsvars>>

\* HandleCrash: if (_gamelog.TestEmergency())
HandleCrash_TestEmergency(t) ==
    /\ pc[t] = "HC_227"
    /\ Ready(t)
    /\ IF emergency
       THEN /\ pc' = [pc EXCEPT ![t] = "HC_228"]
            /\ answered' = [answered EXCEPT ![t] = "TestEmergency"]
       ELSE /\ pc' = [pc EXCEPT ![t] = "HC_233"]
            /\ answered' = answered
    /\ UNCHANGED <<sigvars, objvars, signum, section, res, proc, exit_code,
                   cleanups, envvars, fault_from, abandoned, returned,
                   composed, aborts, resumes, hc_entries, notices, lsvars>>

\* Faulty variant of HandleCrash_MissingNewGRFs: the answer is ignored.
HandleCrash_MissingNewGRFs_Ignored(t) ==
    /\ pc[t] = "HC_233"
    /\ Ready(t)
    /\ pc' = [pc EXCEPT ![t] = "HC_240"]
    /\ UNCHANGED <<sigvars, objvars, signum, section, res, proc, exit_code,
                   cleanups, envvars, histvars, lsvars>>

\* HandleCrash: if (SaveloadCrashWithMissingNewGRFs())
HandleCrash_MissingNewGRFs(t) ==
    /\ pc[t] = "HC_233"
    /\ Ready(t)
    /\ IF missing_newgrfs
       THEN /\ pc' = [pc EXCEPT ![t] = "HC_234"]
            /\ answered' = [answered EXCEPT
                                ![t] = "SaveloadCrashWithMissingNewGRFs"]
       ELSE /\ pc' = [pc EXCEPT ![t] = "HC_240"]
            /\ answered' = answered
    /\ UNCHANGED <<sigvars, objvars, signum, section, res, proc, exit_code,
                   cleanups, envvars, fault_from, abandoned, returned,
                   composed, aborts, resumes, hc_entries, notices, lsvars>>

\* HandleCrash: the notices of the emergency savegame and _exit(3)
HandleCrash_ExitEmergency(t) ==
    /\ pc[t] = "HC_228"
    /\ Ready(t)
    /\ Exit(3)
    /\ UNCHANGED <<sigvars, objvars, pc, signum, section, res, cleanups,
                   envvars, histvars, lsvars>>

\* Faulty variant of HandleCrash_ExitMissingNewGRFs: the status is 2.
HandleCrash_ExitMissingNewGRFs_Status2(t) ==
    /\ pc[t] = "HC_234"
    /\ Ready(t)
    /\ Exit(2)
    /\ UNCHANGED <<sigvars, objvars, pc, signum, section, res, cleanups,
                   envvars, histvars, lsvars>>

\* HandleCrash: the notices of the missing NewGRFs and _exit(3)
HandleCrash_ExitMissingNewGRFs(t) ==
    /\ pc[t] = "HC_234"
    /\ Ready(t)
    /\ Exit(3)
    /\ UNCHANGED <<sigvars, objvars, pc, signum, section, res, cleanups,
                   envvars, histvars, lsvars>>

\* Faulty variant of HandleCrash_NewLog: CrashLogUnix::current is not set.
HandleCrash_NewLog_NoCurrent(t) ==
    /\ pc[t] = "HC_240"
    /\ Ready(t)
    /\ log' = [log EXCEPT ![t] = TRUE]
    /\ try_execute_active' = [try_execute_active EXCEPT ![t] = FALSE]
    /\ internal_fault_jmp_buf' = [internal_fault_jmp_buf EXCEPT ![t] = NoCall]
    /\ report' = [report EXCEPT ![t] = <<>>]
    /\ pc' = [pc EXCEPT ![t] = "HC_242"]
    /\ UNCHANGED <<sigvars, current, crashlog_written, signum, section, res,
                   proc, exit_code, cleanups, envvars, histvars, lsvars>>

\* HandleCrash: log = new CrashLogUnix(signum); CrashLogUnix::current = log
\* The constructor leaves try_execute_active false and the jmp_buf unset.
HandleCrash_NewLog(t) ==
    /\ pc[t] = "HC_240"
    /\ Ready(t)
    /\ log' = [log EXCEPT ![t] = TRUE]
    /\ try_execute_active' = [try_execute_active EXCEPT ![t] = FALSE]
    /\ internal_fault_jmp_buf' = [internal_fault_jmp_buf EXCEPT ![t] = NoCall]
    /\ report' = [report EXCEPT ![t] = <<>>]
    /\ current' = t
    /\ pc' = [pc EXCEPT ![t] = "HC_242"]
    /\ UNCHANGED <<sigvars, crashlog_written, signum, section, res, proc,
                   exit_code, cleanups, envvars, histvars, lsvars>>

\* HandleCrash: log->MakeCrashLog()
HandleCrash_MakeCrashLog(t) ==
    /\ pc[t] = "HC_242"
    /\ Ready(t)
    /\ section' = [section EXCEPT ![t] = 1]
    /\ composed' = [composed EXCEPT ![t] = "started"]
    /\ pc' = [pc EXCEPT ![t] = "MCL_next"]
    /\ UNCHANGED <<sigvars, objvars, signum, res, proc, exit_code, cleanups,
                   envvars, fault_from, abandoned, returned, answered, aborts,
                   resumes, hc_entries, notices, lsvars>>

\* Faulty variant of HandleCrash_Cleanup: the cleanup is not called.
HandleCrash_Cleanup_Skipped(t) ==
    /\ pc[t] = "HC_244"
    /\ Ready(t)
    /\ pc' = [pc EXCEPT ![t] = "HC_245"]
    /\ UNCHANGED <<sigvars, objvars, signum, section, res, proc, exit_code,
                   cleanups, envvars, histvars, lsvars>>

\* HandleCrash: CrashLog::AfterCrashLogCleanup()
HandleCrash_Cleanup(t) ==
    /\ pc[t] = "HC_244"
    /\ Ready(t)
    /\ cleanups' = cleanups + 1
    /\ pc' = [pc EXCEPT ![t] = "HC_245"]
    /\ UNCHANGED <<sigvars, objvars, signum, section, res, proc, exit_code,
                   envvars, histvars, lsvars>>

\* Faulty variant of HandleCrash_Exit: the handler returns instead of _exit(2).
HandleCrash_Exit_Returns(t) ==
    /\ pc[t] = "HC_245"
    /\ Ready(t)
    /\ pc' = [pc EXCEPT ![t] = "Normal"]
    /\ sigmask' = [sigmask EXCEPT ![t] = {}]
    /\ UNCHANGED <<sigact, pending, ss_i, objvars, signum, section, res,
                   proc, exit_code, cleanups, envvars, histvars, lsvars>>

\* HandleCrash: _exit(2)
HandleCrash_Exit(t) ==
    /\ pc[t] = "HC_245"
    /\ Ready(t)
    /\ Exit(2)
    /\ UNCHANGED <<sigvars, objvars, pc, signum, section, res, cleanups,
                   envvars, histvars, lsvars>>

(* ---------------------------- MakeCrashLog --------------------------- *)

\* One fragment of the report buffer.
Fragment(i, text) == [section |-> i, text |-> text]

\* MakeCrashLog: the next section is gathered under TryExecute; after the
\* last one the report is written out.
MakeCrashLog_Next(t) ==
    /\ pc[t] = "MCL_next"
    /\ Ready(t)
    /\ pc' = [pc EXCEPT ![t] = IF section[t] <= NumSteps
                               THEN "TE_121"
                               ELSE "MCL_write"]
    /\ UNCHANGED <<sigvars, objvars, signum, section, res, proc, exit_code,
                   cleanups, envvars, histvars, lsvars>>

\* MakeCrashLog: a section whose TryExecute returned false gets an inline
\* failure note; the composition goes on with the next section.
MakeCrashLog_AfterSection(t) ==
    /\ pc[t] = "MCL_ret"
    /\ Ready(t)
    /\ report' = IF res[t]
                 THEN report
                 ELSE [report EXCEPT
                           ![t] = Append(report[t],
                                         Fragment(section[t], "failure note"))]
    /\ section' = [section EXCEPT ![t] = section[t] + 1]
    /\ pc' = [pc EXCEPT ![t] = "MCL_next"]
    /\ UNCHANGED <<sigvars, current, log, try_execute_active,
                   internal_fault_jmp_buf, crashlog_written, signum, res,
                   proc, exit_code, cleanups, envvars, histvars, lsvars>>

\* MakeCrashLog: the report buffer is written to the crash log file.
MakeCrashLog_Write(t) ==
    /\ pc[t] = "MCL_write"
    /\ Ready(t)
    /\ crashlog_written' = [crashlog_written EXCEPT ![t] = TRUE]
    /\ composed' = [composed EXCEPT ![t] = "done"]
    /\ pc' = [pc EXCEPT ![t] = "HC_244"]
    /\ UNCHANGED <<sigvars, current, log, try_execute_active,
                   internal_fault_jmp_buf, report, signum, section, res, proc,
                   exit_code, cleanups, envvars, fault_from, abandoned,
                   returned, answered, aborts, resumes, hc_entries, notices,
                   lsvars>>

(* ----------------------------- TryExecute ---------------------------- *)

\* TryExecute: this->try_execute_active = true
TryExecute_SetActive(t) ==
    /\ pc[t] = "TE_121"
    /\ Ready(t)
    /\ try_execute_active' = [try_execute_active EXCEPT ![t] = TRUE]
    /\ pc' = [pc EXCEPT ![t] = "TE_124"]
    /\ UNCHANGED <<sigvars, current, log, internal_fault_jmp_buf, report,
                   crashlog_written, signum, section, res, proc, exit_code,
                   cleanups, envvars, histvars, lsvars>>

\* TryExecute: setjmp(this->internal_fault_jmp_buf) returns 0 and func() is
\* called.
TryExecute_Setjmp(t) ==
    /\ pc[t] = "TE_124"
    /\ Ready(t)
    /\ internal_fault_jmp_buf' =
           [internal_fault_jmp_buf EXCEPT
                ![t] = [thread |-> t, section |-> section[t]]]
    /\ pc' = [pc EXCEPT ![t] = "TE_139"]
    /\ UNCHANGED <<sigvars, current, log, try_execute_active, report,
                   crashlog_written, signum, section, res, proc, exit_code,
                   cleanups, envvars, histvars, lsvars>>

\* TryExecute: bool res = func(): func runs to its end. It appended its
\* section's text unless it reports that it could not.
TryExecute_Func(t) ==
    /\ pc[t] = "TE_139"
    /\ Ready(t)
    /\ \E r \in BOOLEAN :
          /\ res' = [res EXCEPT ![t] = r]
          /\ report' = IF r
                       THEN [report EXCEPT
                                 ![t] = Append(report[t],
                                               Fragment(section[t], "content"))]
                       ELSE report
    /\ pc' = [pc EXCEPT ![t] = "TE_140"]
    /\ UNCHANGED <<sigvars, current, log, try_execute_active,
                   internal_fault_jmp_buf, crashlog_written, signum, section,
                   proc, exit_code, cleanups, envvars, histvars, lsvars>>

\* TryExecute: this->try_execute_active = false; return res
TryExecute_Return(t) ==
    /\ pc[t] = "TE_140"
    /\ Ready(t)
    /\ try_execute_active' = [try_execute_active EXCEPT ![t] = FALSE]
    /\ returned' = [returned EXCEPT ![t][section[t]] =
                        IF res[t] THEN "true" ELSE "false"]
    /\ pc' = [pc EXCEPT ![t] = "MCL_ret"]
    /\ UNCHANGED <<sigvars, current, log, internal_fault_jmp_buf, report,
                   crashlog_written, signum, section, res, proc, exit_code,
                   cleanups, envvars, fault_from, abandoned, answered,
                   composed, aborts, resumes, hc_entries, notices, lsvars>>

\* Faulty variant of TryExecute_Resumed: the signals are not unblocked.
TryExecute_Resumed_StillBlocked(t) ==
    /\ pc[t] = "TE_125"
    /\ Ready(t)
    /\ notices' = [notices EXCEPT ![t][section[t]] = notices[t][section[t]] + 1]
    /\ abandoned' = [abandoned EXCEPT ![t] = abandoned[t] \cup {section[t]}]
    /\ pc' = [pc EXCEPT ![t] = "TE_135"]
    /\ UNCHANGED <<sigvars, objvars, signum, section, res, proc, exit_code,
                   cleanups, envvars, fault_from, returned, answered,
                   composed, aborts, resumes, hc_entries, lsvars>>

\* TryExecute: setjmp returned nonzero: the failure notice is printed and
\* the signals are unblocked again.
TryExecute_Resumed(t) ==
    /\ pc[t] = "TE_125"
    /\ Ready(t)
    /\ notices' = [notices EXCEPT ![t][section[t]] = notices[t][section[t]] + 1]
    /\ abandoned' = [abandoned EXCEPT ![t] = abandoned[t] \cup {section[t]}]
    /\ sigmask' = [sigmask EXCEPT ![t] = Unblock(sigmask[t])]
    /\ pc' = [pc EXCEPT ![t] = "TE_135"]
    /\ UNCHANGED <<sigact, pending, ss_i, objvars, signum, section, res,
                   proc, exit_code, cleanups, envvars, fault_from, returned,
                   answered, composed, aborts, resumes, hc_entries, lsvars>>

\* Faulty variant of TryExecute_ResumedReturn: the flag is left set.
TryExecute_ResumedReturn_StillActive(t) ==
    /\ pc[t] = "TE_135"
    /\ Ready(t)
    /\ res' = [res EXCEPT ![t] = FALSE]
    /\ returned' = [returned EXCEPT ![t][section[t]] = "false"]
    /\ pc' = [pc EXCEPT ![t] = "MCL_ret"]
    /\ UNCHANGED <<sigvars, objvars, signum, section, proc, exit_code,
                   cleanups, envvars, fault_from, abandoned, answered,
                   composed, aborts, resumes, hc_entries, notices, lsvars>>

\* Faulty variant of TryExecute_ResumedReturn: the resumed call returns true.
TryExecute_ResumedReturn_True(t) ==
    /\ pc[t] = "TE_135"
    /\ Ready(t)
    /\ try_execute_active' = [try_execute_active EXCEPT ![t] = FALSE]
    /\ res' = [res EXCEPT ![t] = TRUE]
    /\ returned' = [returned EXCEPT ![t][section[t]] = "true"]
    /\ pc' = [pc EXCEPT ![t] = "MCL_ret"]
    /\ UNCHANGED <<sigvars, current, log, internal_fault_jmp_buf, report,
                   crashlog_written, signum, section, proc, exit_code,
                   cleanups, envvars, fault_from, abandoned, answered,
                   composed, aborts, resumes, hc_entries, notices, lsvars>>

\* TryExecute: this->try_execute_active = false; return false
TryExecute_ResumedReturn(t) ==
    /\ pc[t] = "TE_135"
    /\ Ready(t)
    /\ try_execute_active' = [try_execute_active EXCEPT ![t] = FALSE]
    /\ res' = [res EXCEPT ![t] = FALSE]
    /\ returned' = [returned EXCEPT ![t][section[t]] = "false"]
    /\ pc' = [pc EXCEPT ![t] = "MCL_ret"]
    /\ UNCHANGED <<sigvars, current, log, internal_fault_jmp_buf, report,
                   crashlog_written, signum, section, proc, exit_code,
                   cleanups, envvars, fault_from, abandoned, answered,
                   composed, aborts, resumes, hc_entries, notices, lsvars>>

(* ------------------------ HandleInternalCrash ------------------------ *)

\* Faulty variant of NoGuard: only the handle is tested.
NoGuard_HandleOnly == current = nullptr

\* Faulty variant of NoGuard: the flag is tested the wrong way round.
NoGuard_Inverted == current = nullptr \/ try_execute_active[current]

\* if (CrashLogUnix::current == nullptr ||
\*     !CrashLogUnix::current->try_execute_active)
NoGuard == current = nullptr \/ ~try_execute_active[current]

\* HandleInternalCrash: the test of line 202.
HandleInternalCrash_Check(t) ==
    /\ pc[t] = "HIC_202"
    /\ Ready(t)
    /\ IF NoGuard
       THEN /\ pc' = [pc EXCEPT ![t] = "HIC_203"]
            /\ aborts' = aborts + 1
       ELSE /\ pc' = [pc EXCEPT ![t] = "HIC_207"]
            /\ aborts' = aborts
    /\ UNCHANGED <<sigvars, objvars, signum, section, res, proc, exit_code,
                   cleanups, envvars, fault_from, abandoned, returned,
                   answered, composed, resumes, hc_entries, notices, lsvars>>

\* HandleInternalCrash: the fatal notice and _exit(1)
HandleInternalCrash_Abort(t) ==
    /\ pc[t] = "HIC_203"
    /\ Ready(t)
    /\ Exit(1)
    /\ UNCHANGED <<sigvars, objvars, pc, signum, section, res, cleanups,
                   envvars, histvars, lsvars>>

\* Positions inside a TryExecute call.
InTryExecute == {"TE_121", "TE_124"} \cup AfterSetjmp

\* The checkpoint in jmp_buf `buf` belongs to a TryExecute call that is
\* still executing on thread t, below the handler.
ValidCheckpoint(t, buf) ==
    /\ buf.thread = t
    /\ buf.section = section[t]
    /\ fault_from[t].pc \in AfterSetjmp

\* What longjmp can do: with a valid checkpoint it resumes there; with an
\* unset or stale jmp_buf the behaviour is undefined: it may happen to land
\* in the frame of the TryExecute call the thread is executing, or fault
\* with the signals blocked, which ends the process. With the jmp_buf of a
\* call on another thread's stack the thread may also go on running on that
\* stack, and nothing more is known of the process.
LongjmpOutcomes(t, buf) ==
    IF ValidCheckpoint(t, buf)
    THEN {"resume"}
    ELSE IF fault_from[t].pc \in InTryExecute
         THEN {"resume", "killed"}
         ELSE {"killed", "undefined"}

\* HandleInternalCrash: longjmp(current->internal_fault_jmp_buf, 1). The
\* signal mask is left as the handler has it (setjmp saved none).
HandleInternalCrash_Longjmp(t) ==
    /\ pc[t] = "HIC_207"
    /\ Ready(t)
    /\ resumes' = Append(resumes,
                         [thread |-> t,
                          section |-> section[t],
                          from |-> fault_from[t].pc,
                          active |-> try_execute_active[current],
                          owner |-> current,
                          checkpoint |-> internal_fault_jmp_buf[current],
                          valid |-> ValidCheckpoint(
                                        t, internal_fault_jmp_buf[current])])
    /\ \E o \in LongjmpOutcomes(t, internal_fault_jmp_buf[current]) :
          IF o = "resume"
          THEN /\ pc' = [pc EXCEPT ![t] = "TE_125"]
               /\ proc' = proc
          ELSE /\ pc' = pc
               /\ proc' = o
    /\ UNCHANGED <<sigvars, objvars, signum, section, res, exit_code,
                   cleanups, envvars, fault_from, abandoned, returned,
                   answered, composed, aborts, hc_entries, notices, lsvars>>

\* CrashLog::InitThread: a thread started by the running program calls it;
\* it does nothing. The new thread has its creator's signal mask.
InitThread(t) ==
    /\ pc[t] = "NoThread"
    /\ proc = "running"
    /\ \E u \in Threads :
          /\ pc[u] = "Normal"
          /\ Ready(u)
          /\ sigmask' = [sigmask EXCEPT ![t] = sigmask[u]]
    /\ pc' = [pc EXCEPT ![t] = "Normal"]
    /\ UNCHANGED <<sigact, pending, ss_i, objvars, signum, section, res,
                   proc, exit_code, cleanups, envvars, histvars, lsvars>>

(* ------------------------------- Next -------------------------------- *)

ThreadStep(t) ==
    \/ InitialiseCrashLog(t)
    \/ SetSignals(t)
    \/ HandleCrash_Entry(t)
    \/ HandleCrash_Unblock(t)
    \/ HandleCrash_TestEmergency(t)
    \/ HandleCrash_ExitEmergency(t)
    \/ HandleCrash_MissingNewGRFs(t)
    \/ HandleCrash_ExitMissingNewGRFs(t)
    \/ HandleCrash_NewLog(t)
    \/ HandleCrash_MakeCrashLog(t)
    \/ MakeCrashLog_Next(t)
    \/ MakeCrashLog_AfterSection(t)
    \/ MakeCrashLog_Write(t)
    \/ HandleCrash_Cleanup(t)
    \/ HandleCrash_Exit(t)
    \/ TryExecute_SetActive(t)
    \/ TryExecute_Setjmp(t)
    \/ TryExecute_Func(t)
    \/ TryExecute_Return(t)
    \/ TryExecute_Resumed(t)
    \/ TryExecute_ResumedReturn(t)
    \/ HandleInternalCrash_Check(t)
    \/ HandleInternalCrash_Abort(t)
    \/ HandleInternalCrash_Longjmp(t)
    \/ \E s \in Signals : Deliver(t, s)

Fault(t) ==
    \/ \E s \in SyncSignals : RaiseSync(t, s)
    \/ \E s \in AsyncSignals : RaiseAsync(t, s)

Next == \E t \in Threads : ThreadStep(t) \/ Fault(t)

Spec == Init /\ [][Next]_vars

\* The thread that handles a fault keeps running until the process ends.
FairSpec == Spec /\ \A t \in Threads : WF_vars(ThreadStep(t))

\* The signals raised in the two-threaded runs: the first and the last
\* signal SetSignals registers, one raised by the code and one sent from
\* outside.
SignalsMT == {signals_to_handle[1], signals_to_handle[Len(signals_to_handle)]}

\* The faults of the two-threaded runs: each thread's first fault, raised
\* while it runs the program, and up to MaxFaultsMT faults of the guarded
\* func().
FaultMT(t) ==
    \/ /\ pc[t] = "Normal"
       /\ \E s \in SyncSignals \cap SignalsMT : RaiseSync(t, s)
    \/ /\ pc[t] = "Normal"
       /\ \E s \in AsyncSignals \cap SignalsMT : RaiseAsync(t, s)
    \/ /\ pc[t] = "TE_139"
       /\ faults < MaxFaultsMT
       /\ \E s \in SyncSignals \cap SignalsMT : RaiseSync(t, s)

\* The program with a second thread: any thread may be the one that faults
\* first, and the other may fault while that fault is being handled.
NextMT == \E t \in Threads : ThreadStep(t) \/ FaultMT(t) \/ InitThread(t)

SpecMT == Init /\ [][NextMT]_vars

(* --------------------------- LogStacktrace --------------------------- *)

\* backtrace(buffer, size): the frames captured, at most `size` of them.
Backtrace(frames, size) == IF frames < size THEN frames ELSE size

RECURSIVE Decimal(_)
\* The decimal digits of n, most significant first.
Decimal(n) == IF n < 10 THEN <<n>> ELSE Decimal(n \div 10) \o <<n % 10>>

\* fmt's {:02}: the decimal digits, zero-padded to a width of two.
Format02(n) == IF n < 10 THEN <<0, n>> ELSE Decimal(n)

\* " [{:02}] {}\n" of frame i, whose symbol is messages[i].
FrameLine(i) == [kind |-> "frame", index |-> Format02(i), symbol |-> i]

TextLine(text) == [kind |-> text, index |-> <<>>, symbol |-> 0]

\* LogStacktrace: fmt::format_to(output_iterator, "Stacktrace:\n")
LogStacktrace_Header ==
    /\ ls_pc = "LS_87"
    /\ ls_out' = Append(ls_out, TextLine("Stacktrace:"))
    /\ ls_pc' = IF glibc THEN "LS_90" ELSE "LS_98"
    /\ UNCHANGED <<sigvars, objvars, ctlvars, envvars, histvars, glibc, depth,
                   trace_size, ls_i>>

\* Faulty variant of LogStacktrace_Backtrace: sizeof(trace) is passed for
\* lengthof(trace).
LogStacktrace_Backtrace_Sizeof ==
    /\ ls_pc = "LS_90"
    /\ trace_size' = Backtrace(depth, TraceCap * 8)
    /\ ls_i' = 0
    /\ ls_pc' = "LS_93"
    /\ UNCHANGED <<sigvars, objvars, ctlvars, envvars, histvars, glibc, depth,
                   ls_out>>

\* LogStacktrace: trace_size = backtrace(trace, lengthof(trace)) and
\* messages = backtrace_symbols(trace, trace_size)
LogStacktrace_Backtrace ==
    /\ ls_pc = "LS_90"
    /\ trace_size' = Backtrace(depth, TraceCap)
    /\ ls_i' = 0
    /\ ls_pc' = "LS_93"
    /\ UNCHANGED <<sigvars, objvars, ctlvars, envvars, histvars, glibc, depth,
                   ls_out>>

\* LogStacktrace: one turn of `for (int i = 0; i < trace_size; i++)`
LogStacktrace_Frame ==
    /\ ls_pc = "LS_93"
    /\ IF ls_i < trace_size
       THEN /\ ls_out' = Append(ls_out, FrameLine(ls_i))
            /\ ls_i' = ls_i + 1
            /\ ls_pc' = ls_pc
       ELSE /\ ls_pc' = "LS_100"
            /\ UNCHANGED <<ls_out, ls_i>>
    /\ UNCHANGED <<sigvars, objvars, ctlvars, envvars, histvars, glibc, depth,
                   trace_size>>

\* LogStacktrace: fmt::format_to(output_iterator, " Not supported.\n")
LogStacktrace_NotSupported ==
    /\ ls_pc = "LS_98"
    /\ ls_out' = Append(ls_out, TextLine("Not supported."))
    /\ ls_pc' = "LS_100"
    /\ UNCHANGED <<sigvars, objvars, ctlvars, envvars, histvars, glibc, depth,
                   trace_size, ls_i>>

\* LogStacktrace: fmt::format_to(output_iterator, "\n")
LogStacktrace_End ==
    /\ ls_pc = "LS_100"
    /\ ls_out' = Append(ls_out, TextLine(""))
    /\ ls_pc' = "LS_done"
    /\ UNCHANGED <<sigvars, objvars, ctlvars, envvars, histvars, glibc, depth,
                   trace_size, ls_i>>

\* LogStacktrace called on a call stack of any depth, on either build.
InitTrace ==
    /\ InitProcess
    /\ pc = [t \in Threads |-> "NoThread"]
    /\ emergency = FALSE
    /\ missing_newgrfs = FALSE
    /\ glibc \in BOOLEAN
    /\ depth \in 0 .. MaxDepth
    /\ trace_size = 0
    /\ ls_i = 0
    /\ ls_out = <<>>
    /\ ls_pc = "LS_87"

NextTrace ==
    \/ LogStacktrace_Header
    \/ LogStacktrace_Backtrace
    \/ LogStacktrace_Frame
    \/ LogStacktrace_NotSupported
    \/ LogStacktrace_End

SpecTrace == InitTrace /\ [][NextTrace]_vars

(* ----------------------------- properties ---------------------------- *)

\* Thread t is inside a fault handler (or the process ended there).
InHandler(t) == pc[t] \notin (BeforeInstall \cup {"Normal"})

\* The text fragments of section i in a report buffer, in order.
SectionText(buf, i) ==
    LET own == SelectSeq(buf, LAMBDA f : f.section = i)
    IN  [k \in 1 .. Len(own) |-> own[k].text]

C2_ReportWritten ==
    (first_fault \in Signals /\ ~emergency /\ ~missing_newgrfs)
        ~> /\ proc # "running"
           /\ ~stray => (proc = "exited" /\ exit_code = 2)

\* C2 witness: the first fault was SIGQUIT, a guarded step faulted, and the
\* process ended with _exit(2).
C2_Witness ==
    /\ first_fault = "SIGQUIT"
    /\ ~stray
    /\ abandoned["main"] # {}
    /\ proc = "exited"
    /\ exit_code = 2

\* C3: a fault raised while func() runs under TryExecute is delivered to
\* HandleInternalCrash, never to HandleCrash, and HandleInternalCrash
\* resumes at the checkpoint the executing TryExecute call has set.
C3_GuardedFaultResumes ==
    [][\A t \in Threads :
          /\ (pc[t] = "TE_139" /\ faults' # faults)
                => /\ proc' = "running"
                   /\ pc'[t] = "HIC_202" \/ Deliverable(t)' # {}
          /\ (pc[t] = "TE_139" /\ pc'[t] \notin {"TE_139", "TE_140"})
                => pc'[t] = "HIC_202"
          /\ (fault_from[t].pc = "TE_139" /\ pc[t] = "HIC_202"
                                          /\ pc'[t] # pc[t])
                => pc'[t] = "HIC_207"
          /\ (fault_from[t].pc = "TE_139" /\ pc[t] = "HIC_207"
                                          /\ <<pc, proc>>' # <<pc, proc>>)
                => /\ internal_fault_jmp_buf[current] =
                          [thread |-> t, section |-> fault_from[t].section]
                   /\ pc'[t] = "TE_125"
                   /\ section'[t] = fault_from[t].section
                   /\ proc' = "running"]_vars

\* C3 witness: TryExecute has been resumed at its checkpoint by a fault
\* that func() raised.
C3_Witness ==
    \E t \in Threads :
        /\ pc[t] = "TE_125"
        /\ fault_from[t].pc = "TE_139"
        /\ hc_entries[t] = 1


\* Section i of thread t's report failed: TryExecute returned false for it.
Failed(t, i) == returned[t][i] = "false"

\* C4: a section whose func() faults under TryExecute makes that call
\* return false, the composition goes on to the last section, and the
\* report written holds a failure note for just the failed sections and
\* the normal text for just the others (the only further faults being
\* those of guarded steps).
C4_FailureNoteForFailedStep ==
    \A t \in Threads :
        /\ \A i \in abandoned[t] : returned[t][i] \in {"none", "false"}
        /\ (composed[t] = "done" /\ ~stray)
              => /\ crashlog_written[t]
                 /\ \A i \in Sections :
                       /\ returned[t][i] # "none"
                       /\ i \in abandoned[t] => Failed(t, i)
                       /\ SectionText(report[t], i) =
                              IF Failed(t, i)
                              THEN <<"failure note">>
                              ELSE <<"content">>

\* C4 witness: the report was written after the first section faulted and
\* the last one succeeded.
C4_Witness ==
    /\ composed["main"] = "done"
    /\ ~stray
    /\ abandoned["main"] = {1}
    /\ returned["main"][NumSteps] = "true"
    /\ SectionText(report["main"], 1) = <<"failure note">>

\* C5: when a pre-check answers yes no report object is created,
\* CrashLogUnix::current stays unset, MakeCrashLog is not started, no
\* report file is written, and (no further fault being raised) the process
\* ends with _exit(3).
C5_SkippedByPreCheck ==
    /\ (emergency \/ missing_newgrfs)
          => /\ current = nullptr
             /\ \A t \in Threads :
                   /\ ~log[t]
                   /\ composed[t] = "no"
                   /\ ~crashlog_written[t]
                   /\ report[t] = <<>>
    /\ \A t \in Threads :
          answered[t] # "none"
             => /\ emergency \/ missing_newgrfs
                /\ pc[t] \in {"HC_228", "HC_234"} \/ faults > 0
                /\ (proc # "running" /\ faults = 0)
                      => (proc = "exited" /\ exit_code = 3)
    /\ \A t \in Threads :
          (emergency \/ missing_newgrfs)
             => pc[t] \notin {"HC_240", "HC_242", "MCL_next"}

\* C5 witness: the second pre-check answered yes and the process ended
\* with _exit(3).
C5_Witness ==
    /\ answered["main"] = "SaveloadCrashWithMissingNewGRFs"
    /\ proc = "exited"
    /\ exit_code = 3


\* The original reading of C6: a fault delivered while a report handle
\* exists and try_execute_active is false ends the process with _exit(2)
\* after exactly one cleanup.
C6_AsClaimed ==
    \A t \in Threads :
        (fault_from[t].handle /\ ~fault_from[t].active /\ proc # "running")
            => (proc = "exited" /\ exit_code = 2 /\ cleanups = 1)

\* C6: a fault delivered while a report handle exists and
\* try_execute_active is false goes to HandleInternalCrash, which ends the
\* process with _exit(1): it runs no cleanup (the count stays at what
\* HandleCrash had done before the fault) and HandleCrash is not entered a
\* second time, so no second report is attempted.
C6_UnguardedFaultAborts ==
    \A t \in Threads :
        (fault_from[t].handle /\ ~fault_from[t].active)
            => /\ pc[t] \in {"HIC_202", "HIC_203"}
               /\ hc_entries[t] = 1
               /\ composed[t] \in {"no", "started", "done"}
               /\ cleanups = IF fault_from[t].pc = "HC_245" THEN 1 ELSE 0
               /\ proc # "running" => (proc = "exited" /\ exit_code = 1)

\* C6 witness: a fault between two guarded steps, after an earlier step was
\* resumed, ended the process with _exit(1) and no cleanup.
C6_Witness ==
    /\ fault_from["main"].handle
    /\ ~fault_from["main"].active
    /\ fault_from["main"].pc = "MCL_ret"
    /\ resumes # <<>>
    /\ proc = "exited"
    /\ exit_code = 1
    /\ cleanups = 0

\* C7: HandleInternalCrash, invoked while no report handle exists or while
\* try_execute_active is false, ends the process with _exit(1) and makes no
\* longjmp; every longjmp is made with the flag true.
C7_AbortWithoutGuard ==
    /\ \A t \in Threads :
          /\ pc[t] = "HIC_207"
                => (current # nullptr /\ try_execute_active[current])
          /\ pc[t] \in {"HIC_203", "HIC_207"}
                => (pc[t] = "HIC_203" <=> ~fault_from[t].active)
          /\ (pc[t] = "HIC_203" /\ proc # "running")
                => (proc = "exited" /\ exit_code = 1)
    /\ \A k \in 1 .. Len(resumes) : resumes[k].active
    /\ aborts > 0 => \E t \in Threads : pc[t] = "HIC_203"

\* C7 witness: a fault during a pre-check, with no report handle, ended
\* the process with _exit(1).
C7_Witness ==
    /\ ~fault_from["main"].handle
    /\ fault_from["main"].pc = "HC_233"
    /\ pc["main"] = "HIC_203"
    /\ proc = "exited"
    /\ exit_code = 1

AnsweredYes == \E t \in Threads : answered[t] # "none"

ComposedToEnd == \E t \in Threads : composed[t] = "done"

Reentered == \E t \in Threads : pc[t] = "HC_219"

\* The original reading of C8: the exit status is 3 exactly when a
\* pre-check answered yes, 1 exactly when HandleInternalCrash found no
\* guarded step active, and 2 exactly when MakeCrashLog ran to its end or
\* HandleCrash was re-entered with the handle set.
C8_AsClaimed ==
    proc # "running"
        => /\ proc = "exited"
           /\ exit_code \in {1, 2, 3}
           /\ exit_code = 3 <=> AnsweredYes
           /\ exit_code = 1 <=> aborts > 0
           /\ exit_code = 2 <=> (ComposedToEnd \/ Reentered)

\* C8: every _exit of the handlers carries one of three statuses: 1 exactly
\* when HandleInternalCrash found no guarded step active; 3 exactly when a
\* pre-check answered yes and no such abort followed; 2 exactly when
\* MakeCrashLog ran to its end, or HandleCrash was re-entered with the
\* handle set, and no such abort followed.
C8_ExitStatusClasses ==
    proc = "exited"
        => /\ exit_code \in {1, 2, 3}
           /\ exit_code = 1 <=> aborts > 0
           /\ exit_code = 3 <=> (AnsweredYes /\ aborts = 0)
           /\ exit_code = 2 <=> ((ComposedToEnd \/ Reentered) /\ aborts = 0)

\* C8 witness: MakeCrashLog ran to its end, the cleanup faulted, and the
\* process ended with _exit(1).
C8_Witness ==
    /\ ComposedToEnd
    /\ fault_from["main"].pc = "HC_244"
    /\ proc = "exited"
    /\ exit_code = 1

\* The original reading of C9: AfterCrashLogCleanup() has been called
\* before every _exit.
C9_AsClaimed == proc = "exited" => cleanups >= 1

\* C9: AfterCrashLogCleanup() is called exactly once before _exit(2); the
\* _exit(3) of a pre-check is reached with no cleanup, and
\* HandleInternalCrash's _exit(1) adds no cleanup to what HandleCrash had
\* done before the fault.
C9_CleanupBeforeReportWritten ==
    /\ \A t \in Threads : pc[t] = "HC_245" => cleanups = 1
    /\ proc = "exited"
          => /\ exit_code = 2 => cleanups = 1
             /\ exit_code = 3 => cleanups = 0
             /\ exit_code = 1
                   => cleanups = IF \E t \in Threads :
                                        fault_from[t].pc = "HC_245"
                                 THEN 1
                                 ELSE 0

\* C9 witness: the report was written with a failed section and the
\* process ended with _exit(2) after one cleanup.
C9_Witness ==
    /\ proc = "exited"
    /\ exit_code = 2
    /\ cleanups = 1
    /\ abandoned["main"] # {}

\* The frame lines of the stack listing.
FrameLines == SelectSeq(ls_out, LAMBDA l : l.kind = "frame")

RECURSIVE Number(_)
\* The number a sequence of decimal digits reads as.
Number(digits) ==
    IF digits = <<>>
    THEN 0
    ELSE Number(SubSeq(digits, 1, Len(digits) - 1)) * 10 + digits[Len(digits)]

\* C10: on a build with the stack walk the listing holds at most 64 frame
\* lines, the k-th of them carries the index k-1, padded to two digits,
\* and the finished listing has one line for each captured frame.
C10_StackListing ==
    /\ Len(FrameLines) <= 64
    /\ \A k \in 1 .. Len(FrameLines) :
          /\ Len(FrameLines[k].index) >= 2
          /\ Number(FrameLines[k].index) = k - 1
          /\ FrameLines[k].symbol = k - 1
    /\ (glibc /\ ls_pc = "LS_done")
          => /\ Len(FrameLines) = trace_size
             /\ depth <= 64 => Len(FrameLines) = depth

\* C10 witness: the listing of a call stack deeper than the trace array is
\* finished with a line for each of the 64 captured frames.
C10_Witness ==
    /\ glibc
    /\ ls_pc = "LS_done"
    /\ depth > 64
    /\ Len(FrameLines) = 64

\* Positions of HandleInternalCrash.
InInternalCrash == {"HIC_202", "HIC_203", "HIC_207"}

\* Control of thread t is inside the func() a TryExecute call runs: func()
\* is executing, or a handler has interrupted it and has not yet left it by
\* longjmp.
InGuardedStep(t) ==
    \/ pc[t] = "TE_139"
    \/ pc[t] \in InInternalCrash /\ fault_from[t].pc = "TE_139"

\* C11: try_execute_active is true exactly while control is inside the
\* func() of a TryExecute call, from its start to its completion or its
\* abandonment; it is false outside any TryExecute call and after every
\* return of TryExecute.
C11_AsClaimed ==
    \A t \in Threads :
        /\ log[t] => (try_execute_active[t] <=> InGuardedStep(t))
        /\ ~log[t] => ~try_execute_active[t]


\* Control of thread t is inside a TryExecute call, after the flag was set
\* at line 121 and before it is cleared at line 135 or 140 (func() itself,
\* or a handler that interrupted the call there).
InFlaggedRegion(t) ==
    \/ pc[t] \in {"TE_124"} \cup AfterSetjmp
    \/ /\ pc[t] \in InInternalCrash
       /\ fault_from[t].pc \in {"TE_124"} \cup AfterSetjmp

\* C11: try_execute_active is true exactly while control is inside a
\* TryExecute call between the assignment of line 121 and that of line 135
\* or 140, a window that holds the whole of func(); it is false outside any
\* TryExecute call and after every return of TryExecute, on the normal and
\* on the resumed path.
C11_FlagWithinTryExecute ==
    \A t \in Threads :
        /\ log[t] => (try_execute_active[t] <=> InFlaggedRegion(t))
        /\ ~log[t] => ~try_execute_active[t]
        /\ InGuardedStep(t) => try_execute_active[t]

\* C11 witness: TryExecute has returned on the resumed path and on the
\* normal path, and the flag is false.
C11_Witness ==
    /\ pc["main"] = "MCL_ret"
    /\ returned["main"][1] = "false"
    /\ 1 \in abandoned["main"]
    /\ returned["main"][NumSteps] = "true"
    /\ ~try_execute_active["main"]


\* HandleCrash's SetSignals(HandleInternalCrash) has returned on thread t.
Rearmed(t) == InHandler(t) /\ pc[t] \notin {"HC_217", "HC_219", "HC_SetSignals"}

\* C12: in a single-threaded run HandleCrash is entered at most once, and
\* only from the running program. Until its SetSignals has re-registered
\* HandleInternalCrash for every monitored signal all of them are blocked,
\* so nothing is delivered; from then on every monitored signal has
\* HandleInternalCrash as its handler.
C12_HandleCrashEnteredOnce ==
    \A t \in Threads :
        /\ hc_entries[t] <= 1
        /\ pc[t] = "HC_217" => fault_from[t].pc = "Normal"
        /\ pc[t] \in {"HC_217", "HC_SetSignals"}
              => SigSet(signals_to_handle) \subseteq sigmask[t]
        /\ Rearmed(t)
              => \A s \in SigSet(signals_to_handle) :
                     sigact[s].sa_handler = "HandleInternalCrash"
        /\ (InHandler(t) /\ fault_from[t].pc # "Normal")
              => pc[t] \notin {"HC_217", "HC_SetSignals"}

\* C12 witness: a further fault, delivered once HandleCrash had unblocked
\* the signals, has entered HandleInternalCrash and HandleCrash was entered
\* once.
C12_Witness ==
    /\ hc_entries["main"] = 1
    /\ pc["main"] = "HIC_202"
    /\ fault_from["main"].pc = "HC_227"
    /\ faults = 1
    /\ stray
    /\ ~emergency


\* The original reading of C13: whenever a thread is inside a handler and
\* not inside a TryExecute call, all monitored signals are blocked for it.
C13_AsClaimed ==
    \A t \in Threads :
        (InHandler(t) /\ ~InFlaggedRegion(t) /\ pc[t] # "TE_121")
            => SigSet(signals_to_handle) \subseteq sigmask[t]

\* Positions between the entry of a handler and the sigprocmask call that
\* follows it: line 225 for HandleCrash, lines 128-133 for a
\* HandleInternalCrash that resumes TryExecute.
BeforeUnblock ==
    {"HC_217", "HC_219", "HC_SetSignals", "HC_225", "TE_125"}
        \cup InInternalCrash

\* C13: inside a handler the monitored signals are blocked only from the
\* handler's entry to the sigprocmask(SIG_UNBLOCK) that follows it; during
\* the pre-checks, the creation of the report object, the guarded steps,
\* the code between them and the cleanup none of them is blocked.
C13_BlockedUntilUnblock ==
    \A t \in Threads :
        InHandler(t)
            => sigmask[t] = IF pc[t] \in BeforeUnblock
                            THEN SigSet(signals_to_handle)
                            ELSE {}

\* C13 witness: between two guarded steps, after the first was resumed at
\* its checkpoint, no signal is blocked.
C13_Witness ==
    /\ pc["main"] = "MCL_ret"
    /\ section["main"] = 1
    /\ 1 \in abandoned["main"]
    /\ sigmask["main"] = {}
    /\ proc = "running"


\* C14: the resume branch of TryExecute has unblocked the monitored signals
\* before it returns, so that whatever sections were abandoned before, the
\* func() of a later TryExecute call runs with no signal blocked and with
\* the jmp_buf holding that call's own checkpoint; a fault it raises does
\* not end the process, and the longjmp it leads to is made to that
\* checkpoint.
C14_LaterStepStillGuarded ==
    /\ \A t \in Threads :
          /\ pc[t] = "TE_135" => sigmask[t] = {}
          /\ InGuardedStep(t)
                => internal_fault_jmp_buf[t] =
                       [thread |-> t, section |-> section[t]]
          /\ pc[t] = "TE_139" => sigmask[t] = {}
          /\ pc[t] = "TE_139" => proc # "killed"
          /\ (pc[t] \in InInternalCrash \cup {"TE_125"}
                  /\ fault_from[t].pc = "TE_139")
                => /\ proc # "killed"
                   /\ fault_from[t].section = section[t]
    /\ \A k \in 1 .. Len(resumes) :
          resumes[k].from = "TE_139"
             => /\ resumes[k].valid
                /\ resumes[k].checkpoint =
                       [thread |-> resumes[k].thread,
                        section |-> resumes[k].section]

\* C14 witness: the first section faulted and was abandoned, then the last
\* section faulted and was resumed at its own checkpoint.
C14_Witness ==
    /\ Len(resumes) = 2
    /\ resumes[1].from = "TE_139" /\ resumes[1].section = 1
    /\ resumes[2].from = "TE_139" /\ resumes[2].section = NumSteps
    /\ resumes[2].checkpoint = [thread |-> "main", section |-> NumSteps]
    /\ abandoned["main"] = {1}
    /\ pc["main"] = "TE_125"


\* The positions of a handler that ends the process at once: the second
\* entry of HandleCrash and the abort of HandleInternalCrash.
ImmediateExit == {"HC_217", "HC_219", "HIC_202", "HIC_203"}

\* C15: a thread whose fault is delivered while another thread is handling
\* a fault goes straight to _exit: it builds no report of its own, and no
\* longjmp is ever made by a thread to the jmp_buf of another thread's
\* report.
C15_AsClaimed ==
    /\ \A t \in Threads :
          fault_from[t].during
             => /\ pc[t] \in ImmediateExit
                /\ ~log[t]
                /\ composed[t] = "no"
    /\ \A k \in 1 .. Len(resumes) : resumes[k].owner = resumes[k].thread


\* Positions of HandleCrash before `CrashLogUnix::current = log`.
BeforeNewLog ==
    {"HC_217", "HC_SetSignals", "HC_225", "HC_227", "HC_228", "HC_233",
     "HC_234", "HC_240"}

C17_AsClaimed ==
    /\ \A k \in 1 .. Len(resumes) :
          /\ resumes[k].valid
          /\ resumes[k].checkpoint # NoCall
          /\ resumes[k].checkpoint.section = resumes[k].section
    /\ \A t \in Threads :
          pc[t] = "HIC_207"
             => ValidCheckpoint(t, internal_fault_jmp_buf[current])

\* C18: a TryExecute call is resumed at its checkpoint at most once and
\* prints its failure notice at most once.
C18_AsClaimed ==
    /\ \A t \in Threads : \A i \in Sections : notices[t][i] <= 1
    /\ \A j, k \in 1 .. Len(resumes) :
          (resumes[j].thread = resumes[k].thread
              /\ resumes[j].section = resumes[k].section)
             => j = k

====
